---- MODULE Spec2Model ----
(***************************************************************************)
(* A model of ascii.py (ASCII-Video): the glyph atlas builder              *)
(* (get_font_maps), the luminance index, the two drawing policies (draw,   *)
(* draw_efficient), and the frame pipeline (main, ascii_image,             *)
(* ascii_video).                                                           *)
(*                                                                         *)
(* Abstractions.  A character is its code point.  The font rasterizer      *)
(* (PIL ImageFont / ImageDraw) is an external collaborator: it is          *)
(* represented by one fixed font, FontGetSize and FontCoverage.  A float32 *)
(* bitmap value v/255 is kept as its numerator v.  A rendered frame is     *)
(* kept as its pixel dimensions and, per glyph cell, the atlas index that  *)
(* was selected for the cell; pixel colours are not kept.                  *)
(***************************************************************************)
EXTENDS Integers, Sequences, FiniteSets, TLC

\* ------------------------------------------------------------------ bounds

\* Largest atlas size tried by the drawing specification.
MaxN == 130
\* Longest character sequence enumerated in every order.
MaxChars == 3
\* Longest decode stream of the pipeline specification.
MaxFrames == 4
\* Largest value of the -cores argument tried.
MaxCores == 4
\* multiprocessing.cpu_count() of the machine the run is on.
CpuCount == 3

\* ------------------------------------------------------------- the font

\* Code points used by name.
SPACE == 32
LetterK == 75

\* The master ordering string of main: the 90 characters of the literal,
\* reversed, from "B" to the space.
MasterChars ==
    <<
      66, 69, 72, 87, 78, 81, 77, 65, 64, 75, 70, 71, 80, 82, 100,
      98, 37, 68, 56, 88, 101, 35, 83, 79, 97, 112, 57, 85, 102, 113,
      54, 103, 104, 53, 109, 107, 90, 52, 115, 120, 84, 76, 50, 51, 89,
      110, 67, 122, 119, 61, 73, 111, 117, 114, 86, 36, 48, 116, 118, 38,
      99, 121, 74, 108, 105, 49, 106, 55, 43, 42, 63, 60, 62, 34, 40,
      41, 58, 59, 45, 95, 33, 126, 47, 92, 39, 124, 44, 46, 96, 32
    >>

\* The characters the atlas and drawing specifications build sequences of:
\* "d", "X", "+" and the space, four characters of the master string.
SampleChars == {100, 88, 43, SPACE}

Min(S) == CHOOSE x \in S : \A y \in S : x <= y
MinOf(a, b) == IF a <= b THEN a ELSE b

\* font.getsize(char): <<width, height>>.  The stand-in font is two pixels
\* wide; characters with an odd code point are three pixels high, the
\* others two.
FontGetSize(c) == <<2, IF c % 2 = 1 THEN 3 ELSE 2>>

\* Ink coverage (0..255) the rasterizer gives pixel (row, col), 1-based, of
\* character c: the space is empty and the ink grows with the code point,
\* filling the pixels in row-major order.
FontCoverage(c, row, col) ==
    LET w == FontGetSize(c)[1]
        k == (row - 1) * w + (col - 1)
        ink == c - SPACE
    IN  IF ink - 255 * k <= 0 THEN 0 ELSE MinOf(255, ink - 255 * k)

\* One pixel of the image draw.text leaves: the background blended with the
\* fill colour 255 - background by the coverage.
DrawTextPixel(background, cov) ==
    background + (((255 - background) - background) * cov) \div 255

\* The bitmap of one character as get_font_maps stores it: a sequence of
\* rows of numerators of v/255.
RenderGlyph(c, background) ==
    LET sz == FontGetSize(c)
    IN  [row \in 1..sz[2] |->
            [col \in 1..sz[1] |->
                LET px == DrawTextPixel(background, FontCoverage(c, row, col))
                IN  IF background = 255 THEN 255 - px ELSE px]]

\* x[:h, :w] of a bitmap.
Crop(bitmap, h, w) ==
    [row \in 1..MinOf(h, Len(bitmap)) |-> SubSeq(bitmap[row], 1, w)]

RECURSIVE SumSeq(_)
SumSeq(s) == IF s = <<>> THEN 0 ELSE Head(s) + SumSeq(Tail(s))

\* The summed intensity of a bitmap (numerators of v/255).
Density(bitmap) == SumSeq([row \in 1..Len(bitmap) |-> SumSeq(bitmap[row])])

\* A get_font_maps that sorts its result by descending density.
RECURSIVE InsertDesc(_, _)
InsertDesc(b, s) ==
    IF s = <<>> THEN <<b>>
    ELSE IF Density(b) >= Density(Head(s)) THEN <<b>> \o s
    ELSE <<Head(s)>> \o InsertDesc(b, Tail(s))

RECURSIVE SortDesc(_)
SortDesc(s) == IF s = <<>> THEN <<>> ELSE InsertDesc(Head(s), SortDesc(Tail(s)))

get_font_maps_sorting(background, chars) ==
    IF chars = <<>>
    THEN <<>>
    ELSE LET minw == Min({FontGetSize(chars[i])[1] : i \in 1..Len(chars)})
             minh == Min({FontGetSize(chars[i])[2] : i \in 1..Len(chars)})
         IN  SortDesc([i \in 1..Len(chars) |->
                         Crop(RenderGlyph(chars[i], background), minh, minw)])

\* get_font_maps(fontsize, boldness, background, chars) for the stand-in
\* font: one bitmap per character, in the order of chars, each cropped to
\* the smallest width and height seen.  For an empty chars the result is
\* the empty list: min() is inside the lambda that map() applies per
\* bitmap, and is never called.
get_font_maps(background, chars) ==
    IF chars = <<>>
    THEN <<>>
    ELSE LET minw == Min({FontGetSize(chars[i])[1] : i \in 1..Len(chars)})
             minh == Min({FontGetSize(chars[i])[2] : i \in 1..Len(chars)})
         IN  [i \in 1..Len(chars) |->
                 Crop(RenderGlyph(chars[i], background), minh, minw)]

\* ------------------------------------------------------ luminance index

\* int(x * 0.299), int(x * 0.587), int(x * 0.114) for a channel 0..255: the
\* float product is never within rounding error of an integer, so the
\* truncation is that of the exact quotient.
Trunc299(x) == (299 * x) \div 1000
Trunc587(x) == (587 * x) \div 1000
Trunc114(x) == (114 * x) \div 1000

\* A luminance index that rounds the weighted sum instead of truncating
\* each channel.
LuminanceIndexRounded(px, n) ==
    ((((299 * px[1] + 587 * px[2] + 114 * px[3] + 500) \div 1000) * n) + 255) \div 256

\* np.sum(pixel * [0.299, 0.587, 0.114], dtype=uint32) * len(chars) >> 8.
\* The sum is at most 254, so the uint32 product cannot wrap for any atlas
\* size below 2^32 / 254 and the arithmetic is that of the integers.
LuminanceIndex(px, n) ==
    ((Trunc299(px[1]) + Trunc587(px[2]) + Trunc114(px[3])) * n) \div 256

\* ------------------------------------------------------------- frames

\* A frame is [id, h, w, kind]: its position in the decode stream, its
\* pixel size and its content.  "black" and "white" are the uniform
\* all-zero and all-255 frames, "gray" is uniform 128, and "ramp" changes
\* from pixel to pixel.
FrameKinds == {"black", "white", "gray", "ramp"}

\* frame[row, col], 0-based: an RGB triple.
Pixel(frame, row, col) ==
    CASE frame.kind = "black" -> <<0, 0, 0>>
      [] frame.kind = "white" -> <<255, 255, 255>>
      [] frame.kind = "gray"  -> <<128, 128, 128>>
      [] OTHER -> LET v == ((row * frame.w + col) * 37) % 256
                  IN  <<v, 255 - v, (v * 3) % 256>>

\* range(0, stop, step) as the set of its values.
Range(stop, step) == {i * step : i \in {j \in 0..stop : j * step < stop}}

\* ------------------------------------------------------- exact policy

RenderError == [ok |-> FALSE, policy |-> "none", src |-> 0, h |-> 0, w |-> 0,
                cells |-> <<>>]

\* A draw whose clipping keeps every whole cell of the frame.
DrawCanvasNoMargin(frame, clip) ==
    LET fw == FontGetSize(LetterK)[1]
        fh == FontGetSize(LetterK)[2]
    IN  IF clip
        THEN [h |-> (frame.h \div fh) * fh, w |-> (frame.w \div fw) * fw]
        ELSE [h |-> frame.h, w |-> frame.w]

\* The canvas size draw computes: the frame's size, or with clip the whole
\* cells of the frame less one cell.
DrawCanvas(frame, clip) ==
    LET fw == FontGetSize(LetterK)[1]
        fh == FontGetSize(LetterK)[2]
    IN  IF clip
        THEN [h |-> (frame.h \div fh) * fh - fh, w |-> (frame.w \div fw) * fw - fw]
        ELSE [h |-> frame.h, w |-> frame.w]

\* The array draw returns when Image.new accepts the canvas: one cell per
\* (row, column) of the two range loops, holding the atlas index of the
\* character drawn there, which is sampled at the cell's first pixel.
DrawImage(frame, chars, clip) ==
    LET fw == FontGetSize(LetterK)[1]
        fh == FontGetSize(LetterK)[2]
        cv == DrawCanvas(frame, clip)
    IN  [ok |-> TRUE, policy |-> "draw", src |-> frame.id, h |-> cv.h, w |-> cv.w,
         cells |-> [rc \in Range(cv.h, fh) \X Range(cv.w, fw) |->
                       LuminanceIndex(Pixel(frame, rc[1], rc[2]), Len(chars))]]

\* draw(params): the set of results the call can have.  Indexing an empty
\* chars raises; Image.new raises on a negative size; what np.array gives
\* for a canvas with a zero side depends on the imaging library's version
\* (an empty array, or an error).
draw(frame, chars, clip) ==
    LET cv == DrawCanvas(frame, clip)
    IN  IF chars = <<>> \/ cv.h < 0 \/ cv.w < 0 THEN {RenderError}
        ELSE IF cv.h = 0 \/ cv.w = 0
             THEN {RenderError, DrawImage(frame, chars, clip)}
             ELSE {DrawImage(frame, chars, clip)}

\* --------------------------------------------------- vectorized policy

\* ceil(a / b): the length of x[::b] for an axis of length a.
CeilDiv(a, b) == (a + b - 1) \div b

\* A vectorized policy whose gather of the glyph bitmaps is shifted by the
\* cell's position.
draw_efficient_misgathered(frame, chars, clip, font_maps) ==
    IF font_maps = <<>> THEN {RenderError}
    ELSE LET fh == Len(font_maps[1])
             fw == Len(font_maps[1][1])
             h == CeilDiv(frame.h, fh)
             w == CeilDiv(frame.w, fw)
         IN  {[ok |-> TRUE, policy |-> "draw_efficient", src |-> frame.id,
               h |-> IF clip THEN MinOf(frame.h, h * fh) ELSE h * fh,
               w |-> IF clip THEN MinOf(frame.w, w * fw) ELSE w * fw,
               cells |-> [rc \in Range(h * fh, fh) \X Range(w * fw, fw) |->
                   (LuminanceIndex(Pixel(frame, rc[1], rc[2]), Len(chars))
                      + rc[1] + rc[2]) % Len(chars)]]}

\* draw_efficient(params): the set of results the call can have.  font_maps
\* is the atlas; <<>> is the empty atlas and also stands for the None the
\* parallel path passes: font_maps[0] raises on either.  The frame is sampled at steps of the atlas cell
\* size, every sample selects an atlas entry, and the tiled raster is cut
\* back to the frame's size when clip is set.
draw_efficient(frame, chars, clip, font_maps) ==
    IF font_maps = <<>> THEN {RenderError}
    ELSE LET fh == Len(font_maps[1])
             fw == Len(font_maps[1][1])
             h == CeilDiv(frame.h, fh)
             w == CeilDiv(frame.w, fw)
         IN  IF \E r \in Range(h * fh, fh), c \in Range(w * fw, fw) :
                    LuminanceIndex(Pixel(frame, r, c), Len(chars)) >= Len(font_maps)
             THEN {RenderError}
             ELSE {[ok |-> TRUE, policy |-> "draw_efficient", src |-> frame.id,
                    h |-> IF clip THEN MinOf(frame.h, h * fh) ELSE h * fh,
                    w |-> IF clip THEN MinOf(frame.w, w * fw) ELSE w * fw,
                    cells |-> [rc \in Range(h * fh, fh) \X Range(w * fw, fw) |->
                        LuminanceIndex(Pixel(frame, rc[1], rc[2]), Len(chars))]]}

\* draw_func(params) for the policy named.
Render(policy, frame, chars, clip, font_maps) ==
    IF policy = "draw" THEN draw(frame, chars, clip)
    ELSE draw_efficient(frame, chars, clip, font_maps)

\* ------------------------------------------------------------- state

VARIABLES
    call,       \* function specifications: the arguments of the call
    ret,        \* function specifications: its result, NoRet before the call
    args,       \* main: the parsed command line
    frames,     \* the decode stream, in decode order
    length,     \* ascii_video: int(fps * duration + 0.5) of the metadata
    pc,         \* where the run is
    mode,       \* "main", then "image" or "video" once main has chosen
    chars,      \* main: the character sequence in use
    font_maps,  \* main: the atlas (<<>> before it is built, and when empty)
    cores,      \* main: min(args.cores, cpu_count())
    pos,        \* frames pulled from the decode stream so far
    sink,       \* frames appended to the writer, in order
    batch,      \* ascii_video: the frames of the batch being processed
    pool,       \* the multiprocessing.Pool in use, NoPool when there is none
    results,    \* per batch position, the worker's result, Pending until done
    written,    \* results of the batch appended so far
    pools,      \* history: the processes= of every pool created
    progress    \* the progress bar's count

vars == <<call, ret, args, frames, length, pc, mode, chars, font_maps, cores,
          pos, sink, batch, pool, results, written, pools, progress>>

NoRet == [ok |-> FALSE, policy |-> "pending"]
NoCall == [fn |-> "none"]
NoPool == [processes |-> 0, func |-> "none"]
Pending == [ok |-> FALSE, policy |-> "pending"]
NoArgs == [bg |-> 0, d |-> FALSE, c |-> FALSE, cores |-> 0, chars |-> {},
           image |-> FALSE]

\* The pipeline's variables while a function specification runs.
PipelineIdle ==
    /\ args = NoArgs /\ frames = <<>> /\ length = 0 /\ pc = "idle"
    /\ mode = "main" /\ chars = <<>> /\ font_maps = <<>> /\ cores = 0
    /\ pos = 0 /\ sink = <<>> /\ batch = <<>> /\ pool = NoPool
    /\ results = <<>> /\ written = 0 /\ pools = <<>> /\ progress = 0

\* --------------------------------------- specification: luminance index

\* Pixels tried: every gray level, and every level of each channel with the
\* other two at 0 or at 255 (which includes every corner of the RGB cube).
PixelSamples ==
    {<<v, v, v>> : v \in 0..255}
        \cup {<<v, o, o>> : v \in 0..255, o \in {0, 255}}
        \cup {<<o, v, o>> : v \in 0..255, o \in {0, 255}}
        \cup {<<o, o, v>> : v \in 0..255, o \in {0, 255}}

IndexInit ==
    /\ call \in {[fn |-> "index", px |-> p, n |-> n] : p \in PixelSamples, n \in 1..MaxN}
    /\ ret = NoRet
    /\ PipelineIdle

IndexCall ==
    /\ call.fn = "index" /\ ret = NoRet
    /\ ret' = [ok |-> TRUE, policy |-> "index", idx |-> LuminanceIndex(call.px, call.n)]
    /\ UNCHANGED <<call, args, frames, length, pc, mode, chars, font_maps, cores,
                   pos, sink, batch, pool, results, written, pools, progress>>

IndexNext == IndexCall
SpecIndex == IndexInit /\ [][IndexNext]_vars

\* ----------------------------------------------- specification: atlas

\* Sequences over S of length lo..hi.
SeqsOf(S, lo, hi) == UNION {[1..n -> S] : n \in lo..hi}

BgChoices == {0, 100, 255}

AtlasInit ==
    /\ call \in {[fn |-> "get_font_maps", background |-> b, chars |-> cs] :
                    b \in BgChoices,
                    cs \in SeqsOf(SampleChars, 0, MaxChars)}
    /\ ret = NoRet
    /\ PipelineIdle

AtlasCall ==
    /\ call.fn = "get_font_maps" /\ ret = NoRet
    /\ ret' = [ok |-> TRUE, policy |-> "get_font_maps",
               maps |-> get_font_maps(call.background, call.chars)]
    /\ UNCHANGED <<call, args, frames, length, pc, mode, chars, font_maps, cores,
                   pos, sink, batch, pool, results, written, pools, progress>>

AtlasNext == AtlasCall
SpecAtlas == AtlasInit /\ [][AtlasNext]_vars

\* --------------------------------------------- specification: drawing

\* n characters in descending order of ink, ending with the space.
Ramp(n) == [i \in 1..n |-> SPACE + n - i]

DrawHeights == {1, 3, 4, 7}
DrawWidths == {1, 2, 5}

DrawChars ==
    SeqsOf(SampleChars, 1, MaxChars)
        \cup {Ramp(n) : n \in 1..MaxN}

DrawInit ==
    /\ call \in {[fn |-> p, chars |-> cs, clip |-> cl,
                  frame |-> [id |-> 1, h |-> h, w |-> w, kind |-> k]] :
                    p \in {"draw", "draw_efficient"}, cs \in DrawChars,
                    cl \in BOOLEAN, h \in DrawHeights, w \in DrawWidths,
                    k \in FrameKinds}
    /\ ret = NoRet
    /\ PipelineIdle

DrawCall ==
    /\ call.fn \in {"draw", "draw_efficient"} /\ ret = NoRet
    /\ \E r \in Render(call.fn, call.frame, call.chars, call.clip,
                       get_font_maps(255, call.chars)) : ret' = r
    /\ UNCHANGED <<call, args, frames, length, pc, mode, chars, font_maps, cores,
                   pos, sink, batch, pool, results, written, pools, progress>>

DrawNext == DrawCall
SpecDraw == DrawInit /\ [][DrawNext]_vars

\* -------------------------------------------- specification: pipeline

\* Values of -chars tried: not given, "+ " (two master characters), and
\* "^", which is no master character and leaves no character at all.
ArgCharsChoices == {{}, {43, SPACE}, {94}}

\* Values of round(fps * duration) tried, below and above the stream length.
LengthChoices == {0, 2, 9}

\* Frame heights of the decode stream: lower than one cell of the exact
\* policy, and more than two cells.  Every frame is five pixels wide.
StreamHeights == {2, 7}

Streams ==
    UNION {{[i \in 1..n |-> [id |-> i, h |-> hs[i], w |-> 5, kind |-> "ramp"]] :
               hs \in [1..n -> StreamHeights]} : n \in 0..MaxFrames}

\* draw_efficient if not args.d else draw
draw_func == IF args.d THEN "draw" ELSE "draw_efficient"

\* The function the parallel path hands to pool.map: draw_func.
PoolFunc == draw_func

Init ==
    /\ call = NoCall /\ ret = NoRet
    /\ args \in [bg : BgChoices, d : BOOLEAN, c : BOOLEAN, cores : 0..MaxCores,
                 chars : ArgCharsChoices, image : BOOLEAN]
    /\ frames \in Streams
    /\ args.image => Len(frames) = 1
    /\ length \in LengthChoices
    /\ pc = "main" /\ mode = "main"
    /\ chars = <<>> /\ font_maps = <<>> /\ cores = 0
    /\ pos = 0 /\ sink = <<>> /\ batch = <<>> /\ pool = NoPool
    /\ results = <<>> /\ written = 0 /\ pools = <<>> /\ progress = 0

\* ''.join([c for c in chars if c in args.chars]) if args.chars else chars
FilterChars(master, given) ==
    IF given = {} THEN master ELSE SelectSeq(master, LAMBDA c : c \in given)

\* main, to the end of its set-up: the character sequence, the atlas and
\* the worker count.  Nothing is checked: any background is used as given,
\* and an empty character sequence gives an empty atlas.
MainBuildAtlas ==
    /\ pc = "main"
    /\ chars' = FilterChars(MasterChars, args.chars)
    /\ font_maps' = get_font_maps(args.bg, FilterChars(MasterChars, args.chars))
    /\ cores' = MinOf(args.cores, CpuCount)
    /\ pc' = "select"
    /\ UNCHANGED <<call, ret, args, frames, length, mode, pos, sink, batch, pool,
                   results, written, pools, progress>>

\* main: the choice between ascii_image and ascii_video by file type.
MainSelectMedia ==
    /\ pc = "select"
    /\ mode' = IF args.image THEN "image" ELSE "video"
    /\ pc' = IF args.image THEN "image" ELSE "open"
    /\ UNCHANGED <<call, ret, args, frames, length, chars, font_maps, cores, pos,
                   sink, batch, pool, results, written, pools, progress>>

\* ascii_image: read, draw with the atlas, save.
AsciiImage ==
    /\ pc = "image"
    /\ pos' = 1
    /\ \E r \in Render(draw_func, frames[1], chars, args.c, font_maps) :
          IF r.ok THEN sink' = <<r>> /\ pc' = "done"
                  ELSE sink' = sink /\ pc' = "failed"
    /\ UNCHANGED <<call, ret, args, frames, length, mode, chars, font_maps, cores,
                   batch, pool, results, written, pools, progress>>

\* ascii_video: the reader, the expected length and the writer are set up,
\* and the mode is chosen by cores.
VideoOpen ==
    /\ pc = "open"
    /\ pc' = IF cores <= 1 THEN "seq" ELSE "collect"
    /\ UNCHANGED <<call, ret, args, frames, length, mode, chars, font_maps, cores,
                   pos, sink, batch, pool, results, written, pools, progress>>

\* One iteration of the sequential loop: the next frame is drawn with the
\* atlas and appended; the loop ends when the stream does.
SeqStep ==
    /\ pc = "seq"
    /\ IF pos < Len(frames)
       THEN /\ pos' = pos + 1
            /\ \E r \in Render(draw_func, frames[pos + 1], chars, args.c, font_maps) :
                  IF r.ok THEN /\ sink' = Append(sink, r)
                               /\ progress' = progress + 1
                               /\ pc' = pc
                          ELSE /\ pc' = "failed"
                               /\ UNCHANGED <<sink, progress>>
       ELSE /\ pc' = "done"
            /\ UNCHANGED <<pos, sink, progress>>
    /\ UNCHANGED <<call, ret, args, frames, length, mode, chars, font_maps, cores,
                   batch, pool, results, written, pools>>

\* A batch loop that stops collecting one frame early.
ParPullShort ==
    /\ pc = "collect"
    /\ IF pos < Len(frames) /\ Len(batch) < cores - 1
       THEN /\ batch' = Append(batch, frames[pos + 1])
            /\ pos' = pos + 1
            /\ pc' = pc
       ELSE /\ pc' = "batched"
            /\ UNCHANGED <<batch, pos>>
    /\ UNCHANGED <<call, ret, args, frames, length, mode, chars, font_maps, cores,
                   sink, pool, results, written, pools, progress>>

\* One iteration of the for loop filling a batch: next(frames) joins the
\* batch; StopIteration, or the cores-th iteration, ends the loop.
ParPull ==
    /\ pc = "collect"
    /\ IF pos < Len(frames) /\ Len(batch) < cores
       THEN /\ batch' = Append(batch, frames[pos + 1])
            /\ pos' = pos + 1
            /\ pc' = pc
       ELSE /\ pc' = "batched"
            /\ UNCHANGED <<batch, pos>>
    /\ UNCHANGED <<call, ret, args, frames, length, mode, chars, font_maps, cores,
                   sink, pool, results, written, pools, progress>>

\* if batch: a pool of len(batch) processes is created and pool.map is
\* called with draw_func; else: the loop is left.
ParDispatch ==
    /\ pc = "batched"
    /\ IF batch # <<>>
       THEN /\ pool' = [processes |-> Len(batch), func |-> PoolFunc]
            /\ pools' = Append(pools, Len(batch))
            /\ results' = [i \in 1..Len(batch) |-> Pending]
            /\ written' = 0
            /\ pc' = "map"
       ELSE /\ pc' = "done"
            /\ UNCHANGED <<pool, pools, results, written>>
    /\ UNCHANGED <<call, ret, args, frames, length, mode, chars, font_maps, cores,
                   pos, sink, batch, progress>>

\* A pool worker finishes the i-th task of the batch, in any order among
\* the tasks; its params carry None for font_maps.
ParWorker(i) ==
    /\ pc = "map"
    /\ i \in 1..Len(batch) /\ results[i] = Pending
    /\ \E r \in Render(pool.func, batch[i], chars, args.c, <<>>) :
          results' = [results EXCEPT ![i] = r]
    /\ UNCHANGED <<call, ret, args, frames, length, pc, mode, chars, font_maps,
                   cores, pos, sink, batch, pool, written, pools, progress>>

\* A pool.map that leaves a failed task's result out of its list.
ParMapReturnDropping ==
    /\ pc = "map"
    /\ \A i \in 1..Len(batch) : results[i] # Pending
    /\ LET good == SelectSeq(results, LAMBDA r : r.ok)
       IN  IF good = <<>>
           THEN pc' = "collect" /\ batch' = <<>> /\ pool' = NoPool /\ results' = <<>>
           ELSE pc' = "write" /\ batch' = batch /\ pool' = pool /\ results' = good
    /\ UNCHANGED <<call, ret, args, frames, length, mode, chars, font_maps, cores,
                   pos, sink, written, pools, progress>>

\* pool.map returns once every task is done: the results in the order of
\* the batch, or the exception of a failed task, which ends the run.
ParMapReturn ==
    /\ pc = "map"
    /\ \A i \in 1..Len(batch) : results[i] # Pending
    /\ IF \E i \in 1..Len(batch) : ~results[i].ok
       THEN pc' = "failed" /\ pool' = NoPool
       ELSE pc' = "write" /\ pool' = pool
    /\ UNCHANGED <<call, ret, args, frames, length, mode, chars, font_maps, cores,
                   pos, sink, batch, results, written, pools, progress>>

\* A write loop that appends the results from the last to the first.
ParWriteReversed ==
    /\ pc = "write"
    /\ sink' = Append(sink, results[Len(results) - written])
    /\ progress' = progress + 1
    /\ IF written + 1 = Len(results)
       THEN /\ written' = 0 /\ batch' = <<>> /\ results' = <<>> /\ pool' = NoPool
            /\ pc' = "collect"
       ELSE /\ written' = written + 1
            /\ UNCHANGED <<batch, results, pool, pc>>
    /\ UNCHANGED <<call, ret, args, frames, length, mode, chars, font_maps, cores,
                   pos, pools>>

\* One iteration of the loop over pool.map's list: the next result is
\* appended to the writer; after the last the pool is closed and the while
\* loop starts a new batch.
ParWrite ==
    /\ pc = "write"
    /\ sink' = Append(sink, results[written + 1])
    /\ progress' = progress + 1
    /\ IF written + 1 = Len(results)
       THEN /\ written' = 0 /\ batch' = <<>> /\ results' = <<>> /\ pool' = NoPool
            /\ pc' = "collect"
       ELSE /\ written' = written + 1
            /\ UNCHANGED <<batch, results, pool, pc>>
    /\ UNCHANGED <<call, ret, args, frames, length, mode, chars, font_maps, cores,
                   pos, pools>>

Next ==
    \/ MainBuildAtlas
    \/ MainSelectMedia
    \/ AsciiImage
    \/ VideoOpen
    \/ SeqStep
    \/ ParPull
    \/ ParDispatch
    \/ \E i \in 1..CpuCount : ParWorker(i)
    \/ ParMapReturn
    \/ ParWrite

Spec == Init /\ [][Next]_vars

\* ======================================================== claims, part 1

\* C5: for every RGB pixel and every atlas size N >= 1 the luminance index
\* lies in 0..N-1, pure black and pure white included.
C5_IndexInRange ==
    (call.fn = "index" /\ ret.ok) => ret.idx \in 0..(call.n - 1)

\* C5 witness: pure white with the 90 characters of the full master string
\* has been indexed, to the last entry.
C5_Witness ==
    /\ call.fn = "index" /\ ret.ok
    /\ call.px = <<255, 255, 255>> /\ call.n = 90 /\ ret.idx = 89

\* Whether a sequence of bitmaps is in descending order of summed intensity.
AtlasDescending(maps) ==
    \A i \in 1..(Len(maps) - 1) : Density(maps[i]) >= Density(maps[i + 1])

\* C6 as claimed: whatever the order of the characters given, the atlas
\* get_font_maps returns is sorted by descending summed intensity.
C6_AtlasSortedDescending ==
    (call.fn = "get_font_maps" /\ ret.ok) => AtlasDescending(ret.maps)

\* C6 as amended: the atlas get_font_maps returns has one entry per
\* character given, in the order given, entry i being the bitmap of the
\* i-th character cropped to the common cell; so it is in descending order
\* of summed intensity exactly when the characters given are.
C6_AtlasKeepsGivenOrder ==
    (call.fn = "get_font_maps" /\ ret.ok) =>
        LET fh == IF ret.maps = <<>> THEN 0 ELSE Len(ret.maps[1])
            fw == IF ret.maps = <<>> THEN 0 ELSE Len(ret.maps[1][1])
            glyph(i) == Crop(RenderGlyph(call.chars[i], call.background), fh, fw)
        IN  /\ Len(ret.maps) = Len(call.chars)
            /\ \A i \in 1..Len(call.chars) : ret.maps[i] = glyph(i)
            /\ AtlasDescending(ret.maps) <=>
                 \A i \in 1..(Len(call.chars) - 1) :
                     Density(glyph(i)) >= Density(glyph(i + 1))

\* C6 witness: an atlas has been built from characters given in ascending
\* order of ink, and is not in descending order.
C6_Witness ==
    /\ call.fn = "get_font_maps" /\ ret.ok
    /\ call.chars = <<SPACE, 100>>
    /\ ~AtlasDescending(ret.maps)

\* The cell size the exact policy uses.
CellW == FontGetSize(LetterK)[1]
CellH == FontGetSize(LetterK)[2]

\* C8 as claimed: for every frame size, draw with clipping produces an
\* output whose height and width are multiples of the cell's and strictly
\* smaller than the whole cells of the frame.
C8_ClipAlwaysTrimmedOutput ==
    (call.fn = "draw" /\ call.clip /\ ret # NoRet) =>
        /\ ret.ok
        /\ ret.h % CellH = 0 /\ ret.h < (call.frame.h \div CellH) * CellH
        /\ ret.w % CellW = 0 /\ ret.w < (call.frame.w \div CellW) * CellW

\* C8 as amended: whenever draw with clipping returns an output, its height
\* and width are the whole cells of the frame less one cell, so multiples
\* of the cell's and strictly smaller than the whole cells of the frame; a
\* frame lower or narrower than one cell gets no output, draw fails on it.
C8_ClipTrimsOneCell ==
    (call.fn = "draw" /\ call.clip /\ ret # NoRet) =>
        /\ ret.ok =>
            /\ ret.h = (call.frame.h \div CellH) * CellH - CellH
            /\ ret.w = (call.frame.w \div CellW) * CellW - CellW
            /\ ret.h % CellH = 0 /\ ret.h < (call.frame.h \div CellH) * CellH
            /\ ret.w % CellW = 0 /\ ret.w < (call.frame.w \div CellW) * CellW
            /\ ret.h >= 0 /\ ret.w >= 0
        /\ (call.frame.h < CellH \/ call.frame.w < CellW) => ~ret.ok

\* C8 witness: draw with clipping has returned a canvas of one cell from a
\* frame of two whole cells (and a remainder) each way.
C8_Witness ==
    /\ call.fn = "draw" /\ call.clip /\ ret.ok
    /\ call.frame.h = 7 /\ call.frame.w = 5
    /\ ret.h = CellH /\ ret.w = CellW

\* The summed intensity of every atlas entry for a character sequence.
Densities(cs) ==
    LET maps == get_font_maps(255, cs)
    IN  [i \in 1..Len(maps) |-> Density(maps[i])]

\* Atlas entry idx (0-based) is the densest, the emptiest, of densities d.
IsDensest(d, idx) == \A j \in 1..Len(d) : d[idx + 1] >= d[j]
IsEmptiest(d, idx) == \A j \in 1..Len(d) : d[idx + 1] <= d[j]

DensitiesDescending(d) == \A i \in 1..(Len(d) - 1) : d[i] >= d[i + 1]

\* The atlas indices a result holds.
Selected(r) == {r.cells[a] : a \in DOMAIN r.cells}

UniformCall == call.fn \in {"draw", "draw_efficient"} /\ call.frame.kind \in {"black", "white"}

\* C9 as claimed: for every atlas size and both policies, a uniform frame
\* selects one glyph in every cell, and that glyph is the densest or the
\* emptiest of the atlas.
C9_UniformUsesDensityExtreme ==
    (UniformCall /\ ret.ok) =>
        LET d == Densities(call.chars)
        IN  /\ Cardinality(Selected(ret)) <= 1
            /\ \A idx \in Selected(ret) : IsDensest(d, idx) \/ IsEmptiest(d, idx)

\* C9 as amended: for every atlas size N and both policies, a uniform frame
\* selects one and the same atlas entry in every cell: the all-zero frame
\* the first entry, the all-255 frame entry N - 1 - (N - 1) div 128, which
\* is the last entry exactly when N <= 128.  These are the densest and the
\* emptiest glyph when the characters were given in descending order of
\* density and N <= 128; the atlas is not sorted by the code.
C9_UniformUsesFixedEntry ==
    (UniformCall /\ ret.ok) =>
        LET n == Len(call.chars)
            d == Densities(call.chars)
        IN  /\ Cardinality(Selected(ret)) <= 1
            /\ \A idx \in Selected(ret) :
                /\ call.frame.kind = "black" => idx = 0
                /\ call.frame.kind = "white" =>
                      /\ idx = n - 1 - ((n - 1) \div 128)
                      /\ idx = n - 1 <=> n <= 128
                /\ (DensitiesDescending(d) /\ n <= 128) =>
                      /\ call.frame.kind = "black" => IsDensest(d, idx)
                      /\ call.frame.kind = "white" => IsEmptiest(d, idx)

\* C9 witness: the vectorized policy has composited an all-255 frame of
\* several cells with an atlas of 129 glyphs, every cell holding entry 127.
C9_Witness ==
    /\ call.fn = "draw_efficient" /\ call.frame.kind = "white" /\ ret.ok
    /\ Len(call.chars) = 129
    /\ Cardinality(DOMAIN ret.cells) > 1
    /\ Selected(ret) = {127}

\* ======================================================== claims, part 2

\* The font_maps a call of the drawing function gets: the atlas in the
\* sequential loop, None in a batch.
PassedFontMaps == IF cores <= 1 THEN font_maps ELSE <<>>

\* C1: in sequential and in parallel mode, whatever the order the workers
\* finish in, the i-th frame appended to the sink is the rendering of the
\* i-th frame decoded.
C1_SinkInDecodeOrder ==
    mode = "video" =>
        /\ Len(sink) <= pos
        /\ \A i \in 1..Len(sink) :
              /\ sink[i].ok
              /\ sink[i].src = frames[i].id
              /\ sink[i] \in Render(draw_func, frames[i], chars, args.c, PassedFontMaps)

\* C1 witness: a stream of four frames has been written whole by batches of
\* three and one.
C1_Witness ==
    /\ mode = "video" /\ pc = "done" /\ cores = 3
    /\ Len(frames) = 4 /\ Len(sink) = 4 /\ pools = <<3, 1>>

\* A worker of the batch in hand has failed.
WorkerFailed == \E i \in 1..Len(results) : results[i] # Pending /\ ~results[i].ok

\* C2: in parallel mode the sink holds, at every point, the renderings of
\* a gap-free prefix of the decode stream: every frame pulled before the
\* batch in hand, plus the results of the batch appended so far; a batch is
\* written only if every worker succeeded, and once a worker has failed
\* the run is in pool.map or has ended as failed and nothing of that batch
\* or a later one is in the sink.
C2_FailureIsFatalAndNothingDropped ==
    (mode = "video" /\ cores > 1) =>
        /\ \A i \in 1..Len(sink) : sink[i].ok /\ sink[i].src = frames[i].id
        /\ Len(sink) = pos - Len(batch) + written
        /\ pc = "write" => \A i \in 1..Len(results) : results[i].ok
        /\ pc # "write" => written = 0
        /\ pc = "done" => batch = <<>>
        /\ WorkerFailed => pc \in {"map", "failed"}

\* C2 witness: a run has ended as failed after writing an earlier batch,
\* and a worker of the failed batch had succeeded; its result is not in the
\* sink.
C2_Witness ==
    /\ mode = "video" /\ cores > 1 /\ pc = "failed"
    /\ Len(sink) > 0 /\ WorkerFailed
    /\ \E i \in 1..Len(results) : results[i].ok
    /\ Len(sink) = pos - Len(batch)

\* C3: whenever the parallelism degree is above 1, the function the pool
\* runs is the exact policy, whichever policy the configuration selected.
C3_PoolRunsExactPolicy ==
    pool # NoPool => pool.func = "draw"

\* Every frame of the stream is at least two cells of the exact policy
\* high and wide, so that both policies can draw it, clipped or not.
AllDrawable ==
    \A i \in 1..Len(frames) : frames[i].h >= 2 * CellH /\ frames[i].w >= 2 * CellW

\* C4: once ascii_video has ended, in sequential or parallel mode, the
\* stream is exhausted and the number of frames written is the number
\* decoded, whatever the expected length.  Stated for the runs with at
\* least one character in use and a stream both policies can draw.
C4_WritesEveryDecodedFrame ==
    (mode = "video" /\ pc \in {"done", "failed"} /\ chars # <<>> /\ AllDrawable) =>
        /\ pos = Len(frames)
        /\ Len(sink) = pos

\* C7: a run with a background other than 0 or 255 gets no further than
\* the start of main: it has not built the atlas, it pulls and writes no
\* frame, and it ends as failed.
C7_InvalidBackgroundRejected ==
    args.bg \notin {0, 255} =>
        /\ pc \in {"main", "failed"}
        /\ font_maps = <<>>
        /\ pos = 0 /\ sink = <<>>

\* C10: in parallel mode every pool is created with as many processes as
\* its batch has frames, between 1 and the worker count; only the last
\* batch of a run is shorter than the worker count; and a frame is pulled
\* only when every result of the earlier batches is in the sink.
C10_BatchesAndPools ==
    (mode = "video" /\ cores > 1) =>
        /\ pool # NoPool => pool.processes = Len(batch)
        /\ pc \in {"map", "write"} => pool # NoPool /\ Len(batch) \in 1..cores
        /\ Len(batch) <= cores
        /\ \A k \in 1..Len(pools) : pools[k] \in 1..cores
        /\ \A k \in 1..(Len(pools) - 1) : pools[k] = cores
        /\ (Len(pools) > 0 /\ pools[Len(pools)] < cores) => pos = Len(frames)
        /\ pc = "collect" => Len(sink) = pos - Len(batch)
        /\ pc = "done" => SumSeq(pools) = Len(frames)
        /\ Len(frames) = 0 => pools = <<>>

\* C10 witness: a stream of four frames, an exact multiple of the worker
\* count 2, has been written by two pools of two processes.
C10_Witness ==
    /\ mode = "video" /\ cores = 2 /\ pc = "done"
    /\ Len(frames) = 4 /\ pools = <<2, 2>> /\ Len(sink) = 4

====
